---------------------------- MODULE Spec2Model ----------------------------
(***************************************************************************)
(* The permission-gated alert loop of src/App.tsx: the App component's     *)
(* state (permission, isRunning, logs, vibrationKey), its refs             *)
(* (intervalRef, vibrationPatternRef), the platform objects it talks to    *)
(* (Notification.permission, the interval timers, pending setTimeout       *)
(* callbacks, pending requestPermission promises, delivery cycles          *)
(* suspended at an await) and one action per handler, timer callback or    *)
(* promise continuation.                                                   *)
(*                                                                         *)
(* Each handler runs to its first await as one step (the page is single    *)
(* threaded); what follows an await is a later step of its own.            *)
(* The picked catalog entry (src/App.tsx:54-55) only fills the text of     *)
(* the log entry and of the notification; no branch reads it, so a log     *)
(* entry is identified by its id alone.                                    *)
(* A state setter is the assignment the source writes, also when the       *)
(* callback that calls it runs after the effect cleanup.                   *)
(* Notification.permission belongs to the platform: besides the answers    *)
(* to this page's requests, the user can revoke a grant in the browser's   *)
(* site settings while the page is open.                                   *)
(***************************************************************************)
EXTENDS Integers, Sequences, FiniteSets, Bags

VARIABLES
    supported,            \* 'Notification' in window
    hasSW,                \* 'serviceWorker' in navigator
    hasVibrate,           \* navigator.vibrate is defined
    platPerm,             \* Notification.permission, owned by the platform
    phase,                \* "init" before the mount effect, "mounted", "unmounted"
    permission,           \* useState permission (the mirrored state)
    isRunning,            \* useState isRunning
    logs,                 \* useState logs, newest first
    vibrationKey,         \* useState vibrationKey
    vibrationPatternRef,  \* useRef: the pattern the next cycle reads
    intervalRef,          \* useRef: handle of the interval, NULL when none
    timers,               \* the platform's active interval handles
    clock,                \* Date.now() as read by the cycles: one per cycle
    requests,             \* pending promises of Notification.requestPermission()
    fallbacks,            \* pending callback-style requestPermission(cb) calls
    pendingStarts,        \* pending setTimeout(startNotifications, 500) callbacks
    swRegistered,         \* navigator.serviceWorker.register('/sw.js') was called
    inflight,             \* bag of the delivery cycles suspended at an await
    stopped,              \* history: stop()/teardown ran and the user has not started since
    ev                    \* history: what the last step did

vars == <<supported, hasSW, hasVibrate, platPerm, phase, permission, isRunning,
          logs, vibrationKey, vibrationPatternRef, intervalRef, timers, clock,
          requests, fallbacks, pendingStarts, swRegistered, inflight, stopped, ev>>

env == <<supported, hasSW, hasVibrate>>

-----------------------------------------------------------------------------
(* Bounds of the model *)

MaxCycles == 2        \* delivery cycles begun in one behaviour of Spec
MaxLogCycles == 52    \* delivery cycles begun in one behaviour of SpecLog
MaxRequests == 2      \* clicks on "Allow & Start" before the mirror leaves 'default'
MaxInFlight == 2      \* delivery cycles suspended at the same time
MaxTimerId == 2       \* interval handles the platform hands out
NumKeys == 2          \* vibration patterns the user selects among

-----------------------------------------------------------------------------
(* Program constants *)

NULL == 0             \* intervalRef.current === null
KeepLast == 49        \* prev.slice(0, 49)
LogCapacity == 50     \* "Keep last 50"

Permissions == {"default", "granted", "denied"}

KeyOrder == <<"default", "short", "heartbeat", "urgent", "long", "slow">>

VIBRATION_PATTERNS ==
    [k \in {KeyOrder[i] : i \in 1..Len(KeyOrder)} |->
        CASE k = "default"   -> <<200, 100, 200, 100, 200>>
          [] k = "short"     -> <<100, 50, 100>>
          [] k = "heartbeat" -> <<100, 100, 100, 400, 100, 100, 100>>
          [] k = "urgent"    -> <<50, 50, 50, 50, 50, 50, 50, 50, 50, 50>>
          [] k = "long"      -> <<1000>>
          [] k = "slow"      -> <<500, 500, 500>>]

SelectableKeys == {KeyOrder[i] : i \in 1..NumKeys}

Min(a, b) == IF a < b THEN a ELSE b

\* What a step did: the handler or callback that ran, the platform delivery
\* calls it made, the pattern it passed to them, and whether it reached
\* console.error (or let an exception escape).
Ev(op, attempts, pat, failed) ==
    [op |-> op, attempts |-> attempts, pat |-> pat, failed |-> failed]

-----------------------------------------------------------------------------
(* Alert Log *)

AppendLog_slice50(prev, entry) ==
    <<entry>> \o SubSeq(prev, 1, Min(Len(prev), KeepLast + 1))

\* setLogs(prev => [entry, ...prev.slice(0, 49)])
AppendLog(prev, entry) == <<entry>> \o SubSeq(prev, 1, Min(Len(prev), KeepLast))

-----------------------------------------------------------------------------
(* Delivery cycle *)

\* The part of sendRandomNotification that follows the permission re-check,
\* up to its first await or its end.
Deliver(op, ok, vok) ==
    LET currentPattern == vibrationPatternRef IN
    IF platPerm # "granted"
    THEN /\ inflight' = inflight
         /\ ev' = Ev(op, {}, <<>>, FALSE)
    ELSE IF hasSW
    THEN \* await navigator.serviceWorker.ready
         /\ inflight' = inflight (+) SetToBag({[pc |-> "ready", pat |-> currentPattern]})
         /\ ev' = Ev(op, {}, <<>>, FALSE)
    ELSE IF ~ok
    THEN \* new Notification(...) throws
         /\ inflight' = inflight
         /\ ev' = Ev(op, {"direct"}, currentPattern, TRUE)
    ELSE IF ~hasVibrate
    THEN /\ inflight' = inflight
         /\ ev' = Ev(op, {"direct"}, currentPattern, FALSE)
    ELSE \* navigator.vibrate(currentPattern), which may throw
         /\ inflight' = inflight
         /\ ev' = Ev(op, {"direct", "vibrate"}, currentPattern, ~vok)

\* The outcomes the platform can give a cycle that begins now: whether
\* new Notification(...) returns (ok) and whether navigator.vibrate returns
\* (vok); both calls are only reached on the direct path.
DirectOutcomes == IF platPerm = "granted" /\ ~hasSW THEN BOOLEAN ELSE {TRUE}
VibrateOutcomes ==
    IF platPerm = "granted" /\ ~hasSW /\ hasVibrate THEN BOOLEAN ELSE {TRUE}

sendRandomNotification_gateFirst(op, cap, ok, vok) ==
    /\ clock < cap
    /\ (platPerm = "granted" /\ hasSW) => BagCardinality(inflight) < MaxInFlight
    /\ clock' = clock + 1
    /\ logs' = IF platPerm # "granted" THEN logs
               ELSE AppendLog(logs, [id |-> clock + 1])
    /\ Deliver(op, ok, vok)

\* sendRandomNotification up to its first await: log, re-check, deliver.
sendRandomNotification(op, cap, ok, vok) ==
    /\ clock < cap
    /\ (platPerm = "granted" /\ hasSW) => BagCardinality(inflight) < MaxInFlight
    /\ clock' = clock + 1
    /\ logs' = AppendLog(logs, [id |-> clock + 1])
    /\ Deliver(op, ok, vok)

-----------------------------------------------------------------------------
(* Alert Loop *)

\* window.setInterval returns a handle that no active interval has.
FreshId == CHOOSE i \in 1..MaxTimerId : i \notin timers

ClearExisting_none(ts, ref) == ts

\* if (intervalRef.current) window.clearInterval(intervalRef.current)
ClearExisting(ts, ref) == IF ref # NULL THEN ts \ {ref} ELSE ts

startNotifications_noEagerCycle(op, cap, ok, vok) ==
    /\ \E i \in 1..MaxTimerId : i \notin timers
    /\ clock < cap
    /\ isRunning' = TRUE
    /\ timers' = ClearExisting(timers, intervalRef) \cup {FreshId}
    /\ intervalRef' = FreshId
    /\ ev' = Ev(op, {}, <<>>, FALSE)
    /\ UNCHANGED <<clock, logs, inflight>>

\* setIsRunning(true); clear; sendRandomNotification(); setInterval(...)
startNotifications(op, cap, ok, vok) ==
    /\ \E i \in 1..MaxTimerId : i \notin timers
    /\ isRunning' = TRUE
    /\ timers' = ClearExisting(timers, intervalRef) \cup {FreshId}
    /\ intervalRef' = FreshId
    /\ sendRandomNotification(op, cap, ok, vok)

stopNotifications_keepFlag ==
    /\ isRunning' = isRunning
    /\ timers' = timers \ {intervalRef}
    /\ intervalRef' = NULL

\* setIsRunning(false); if (intervalRef.current) { clearInterval; = null }
stopNotifications ==
    /\ isRunning' = FALSE
    /\ IF intervalRef # NULL
       THEN timers' = timers \ {intervalRef} /\ intervalRef' = NULL
       ELSE UNCHANGED <<timers, intervalRef>>

-----------------------------------------------------------------------------
(* Initial state: the component as constructed, before its mount effect *)

Init ==
    /\ supported \in BOOLEAN
    /\ hasSW \in BOOLEAN
    /\ hasVibrate \in BOOLEAN
    /\ platPerm \in IF supported THEN Permissions ELSE {"default"}
    /\ phase = "init"
    /\ permission = "default"
    /\ isRunning = FALSE
    /\ logs = <<>>
    /\ vibrationKey = "default"
    /\ vibrationPatternRef = VIBRATION_PATTERNS["default"]
    /\ intervalRef = NULL
    /\ timers = {}
    /\ clock = 0
    /\ requests = 0
    /\ fallbacks = 0
    /\ pendingStarts = 0
    /\ swRegistered = FALSE
    /\ inflight = EmptyBag
    /\ stopped = FALSE
    /\ ev = Ev("init", {}, <<>>, FALSE)

-----------------------------------------------------------------------------
(* Mount effect and its cleanup *)

Mount_noSupportCheck(cap) ==
    /\ phase = "init"
    /\ phase' = "mounted"
    /\ permission' = platPerm
    /\ \E ok \in DirectOutcomes, vok \in VibrateOutcomes :
         startNotifications("mountStart", cap, ok, vok)
    /\ UNCHANGED <<env, platPerm, vibrationKey, vibrationPatternRef, requests,
                   fallbacks, pendingStarts, swRegistered, stopped>>

\* useEffect(() => { ... }, [startNotifications, stopNotifications])
Mount(cap) ==
    /\ phase = "init"
    /\ phase' = "mounted"
    /\ IF supported
       THEN /\ permission' = platPerm
            /\ IF platPerm = "granted"
               THEN \E ok \in DirectOutcomes, vok \in VibrateOutcomes :
                      startNotifications("mountStart", cap, ok, vok)
               ELSE /\ ev' = Ev("mount", {}, <<>>, FALSE)
                    /\ UNCHANGED <<isRunning, intervalRef, timers, clock, logs, inflight>>
       ELSE /\ ev' = Ev("mount", {}, <<>>, FALSE)
            /\ UNCHANGED <<permission, isRunning, intervalRef, timers, clock, logs,
                           inflight>>
    /\ UNCHANGED <<env, platPerm, vibrationKey, vibrationPatternRef, requests,
                   fallbacks, pendingStarts, swRegistered, stopped>>

\* return () => stopNotifications()
Teardown ==
    /\ phase = "mounted"
    /\ phase' = "unmounted"
    /\ stopNotifications
    /\ stopped' = TRUE
    /\ ev' = Ev("teardown", {}, <<>>, FALSE)
    /\ UNCHANGED <<env, platPerm, permission, logs, vibrationKey, vibrationPatternRef,
                   clock, requests, fallbacks, pendingStarts, swRegistered, inflight>>

-----------------------------------------------------------------------------
(* Controls of the rendered view *)

\* What the component renders: nothing to click before mount or after
\* teardown, the static message when the platform lacks notifications,
\* otherwise the view selected by the mirrored permission.
Shows(view) == phase = "mounted" /\ supported /\ permission = view

\* START button: onClick={startNotifications}, rendered while !isRunning
StartClick(cap) ==
    /\ Shows("granted")
    /\ ~isRunning
    /\ \E ok \in DirectOutcomes, vok \in VibrateOutcomes :
         startNotifications("startClick", cap, ok, vok)
    /\ stopped' = FALSE
    /\ UNCHANGED <<env, platPerm, phase, permission, vibrationKey, vibrationPatternRef,
                   requests, fallbacks, pendingStarts, swRegistered>>

\* STOP button: onClick={stopNotifications}, rendered while isRunning
StopClick ==
    /\ Shows("granted")
    /\ isRunning
    /\ stopNotifications
    /\ stopped' = TRUE
    /\ ev' = Ev("stopClick", {}, <<>>, FALSE)
    /\ UNCHANGED <<env, platPerm, phase, permission, logs, vibrationKey,
                   vibrationPatternRef, clock, requests, fallbacks, pendingStarts,
                   swRegistered, inflight>>

handleVibrationChange_restartsLoop(key) ==
    LET newPattern == VIBRATION_PATTERNS[key] IN
    /\ vibrationKey' = key
    /\ vibrationPatternRef' = newPattern
    /\ ev' = Ev("vibrationChange", IF hasVibrate THEN {"preview"} ELSE {},
                newPattern, FALSE)
    /\ stopNotifications
    /\ UNCHANGED <<env, platPerm, phase, permission, logs, clock, requests,
                   fallbacks, pendingStarts, swRegistered, inflight, stopped>>

\* setVibrationKey(key); vibrationPatternRef.current = newPattern; preview
handleVibrationChange(key) ==
    LET newPattern == VIBRATION_PATTERNS[key] IN
    /\ vibrationKey' = key
    /\ vibrationPatternRef' = newPattern
    /\ ev' = Ev("vibrationChange", IF hasVibrate THEN {"preview"} ELSE {},
                newPattern, FALSE)
    /\ UNCHANGED <<env, platPerm, phase, permission, isRunning, logs, intervalRef,
                   timers, clock, requests, fallbacks, pendingStarts, swRegistered,
                   inflight, stopped>>

\* <select onChange={(e) => handleVibrationChange(e.target.value)}>
VibrationSelect ==
    /\ Shows("granted")
    /\ \E key \in SelectableKeys \ {vibrationKey} : handleVibrationChange(key)

-----------------------------------------------------------------------------
(* Permission request *)

AfterResult_resetOnDenied(result) ==
    /\ permission' = IF result = "denied" THEN "default" ELSE result
    /\ swRegistered' = (swRegistered \/ (result = "granted" /\ hasSW))
    /\ pendingStarts' = IF result = "granted" THEN pendingStarts + 1 ELSE pendingStarts

\* if (result === 'granted') { register; setTimeout(start, 500) } else if denied alert
AfterResult(result) ==
    /\ permission' = result
    /\ swRegistered' = (swRegistered \/ (result = "granted" /\ hasSW))
    /\ pendingStarts' = IF result = "granted" THEN pendingStarts + 1 ELSE pendingStarts

\* handleGrantPermission up to its first await
handleGrantPermission ==
    /\ requests + fallbacks + pendingStarts < MaxRequests
    /\ ev' = Ev("grantClick", {}, <<>>, FALSE)
    /\ IF ~supported
       THEN UNCHANGED <<permission, swRegistered, pendingStarts, requests>>
       ELSE IF platPerm = "granted"
       THEN AfterResult("granted") /\ UNCHANGED requests
       ELSE /\ requests' = requests + 1
            /\ UNCHANGED <<permission, swRegistered, pendingStarts>>
    /\ UNCHANGED <<env, platPerm, phase, isRunning, logs, vibrationKey,
                   vibrationPatternRef, intervalRef, timers, clock, fallbacks,
                   inflight, stopped>>

\* "Allow & Start": onClick={handleGrantPermission}
GrantClick == Shows("default") /\ handleGrantPermission

\* The user answers the platform's prompt and the platform commits the
\* decision; the pending requests resolve afterwards, each in a step of its own
\* (a request that resolves while the permission is still 'default' was
\* dismissed).
PromptAnswer ==
    /\ requests + fallbacks > 0
    /\ platPerm = "default"
    /\ \E answer \in {"granted", "denied"} : platPerm' = answer
    /\ ev' = Ev("promptAnswer", {}, <<>>, FALSE)
    /\ UNCHANGED <<env, phase, permission, isRunning, logs, vibrationKey,
                   vibrationPatternRef, intervalRef, timers, clock, requests,
                   fallbacks, pendingStarts, swRegistered, inflight, stopped>>

\* result = await Notification.requestPermission() resolves
RequestResolve ==
    /\ requests > 0
    /\ requests' = requests - 1
    /\ AfterResult(platPerm)
    /\ ev' = Ev("requestResolve", {}, <<>>, FALSE)
    /\ UNCHANGED <<env, platPerm, phase, isRunning, logs, vibrationKey, vibrationPatternRef,
                   intervalRef, timers, clock, fallbacks, inflight, stopped>>

\* the request throws or rejects: catch (error) { console.error;
\* Notification.requestPermission((res) => ...) }
RequestReject ==
    /\ requests > 0
    /\ requests' = requests - 1
    /\ fallbacks' = fallbacks + 1
    /\ ev' = Ev("requestReject", {}, <<>>, TRUE)
    /\ UNCHANGED <<env, platPerm, phase, permission, isRunning, logs, vibrationKey,
                   vibrationPatternRef, intervalRef, timers, clock, pendingStarts,
                   swRegistered, inflight, stopped>>

\* (res) => { setPermission(res); if (res === 'granted') startNotifications(); }
FallbackCallback(cap) ==
    /\ fallbacks > 0
    /\ fallbacks' = fallbacks - 1
    /\ permission' = platPerm
    /\ IF platPerm = "granted"
       THEN \E ok \in DirectOutcomes, vok \in VibrateOutcomes :
              startNotifications("fallbackStart", cap, ok, vok)
       ELSE /\ ev' = Ev("fallback", {}, <<>>, FALSE)
            /\ UNCHANGED <<isRunning, intervalRef, timers, clock, logs, inflight>>
    /\ UNCHANGED <<env, platPerm, phase, vibrationKey, vibrationPatternRef, requests,
                   pendingStarts, swRegistered, stopped>>

\* setTimeout(() => { startNotifications(); }, 500) fires
DelayedStart(cap) ==
    /\ pendingStarts > 0
    /\ pendingStarts' = pendingStarts - 1
    /\ \E ok \in DirectOutcomes, vok \in VibrateOutcomes :
         startNotifications("delayedStart", cap, ok, vok)
    /\ UNCHANGED <<env, platPerm, phase, permission, vibrationKey, vibrationPatternRef,
                   requests, fallbacks, swRegistered, stopped>>

-----------------------------------------------------------------------------
(* Timer ticks and the continuations of a suspended cycle *)

Tick_serialized(cap) ==
    /\ inflight = EmptyBag
    /\ \E t \in timers : \E ok \in DirectOutcomes, vok \in VibrateOutcomes :
         sendRandomNotification("tick", cap, ok, vok)
    /\ UNCHANGED <<env, platPerm, phase, permission, isRunning, vibrationKey,
                   vibrationPatternRef, intervalRef, timers, requests, fallbacks,
                   pendingStarts, swRegistered, stopped>>

\* window.setInterval(() => { sendRandomNotification(); }, 2000) fires
Tick(cap) ==
    /\ \E t \in timers : \E ok \in DirectOutcomes, vok \in VibrateOutcomes :
         sendRandomNotification("tick", cap, ok, vok)
    /\ UNCHANGED <<env, platPerm, phase, permission, isRunning, vibrationKey,
                   vibrationPatternRef, intervalRef, timers, requests, fallbacks,
                   pendingStarts, swRegistered, stopped>>

AgentReady_readsRefLate ==
    /\ \E c \in BagToSet(inflight) :
         /\ c.pc = "ready"
         /\ inflight' = (inflight (-) SetToBag({c}))
                           (+) SetToBag({[c EXCEPT !.pc = "show"]})
         /\ ev' = Ev("agentReady", {"show"}, vibrationPatternRef, FALSE)
    /\ UNCHANGED <<env, platPerm, phase, permission, isRunning, logs, vibrationKey,
                   vibrationPatternRef, intervalRef, timers, clock, requests,
                   fallbacks, pendingStarts, swRegistered, stopped>>

\* navigator.serviceWorker.ready resolves for a suspended cycle, which calls
\* registration.showNotification(content.title, options) and awaits it
AgentReady ==
    /\ \E c \in BagToSet(inflight) :
         /\ c.pc = "ready"
         /\ inflight' = (inflight (-) SetToBag({c}))
                           (+) SetToBag({[c EXCEPT !.pc = "show"]})
         /\ ev' = Ev("agentReady", {"show"}, c.pat, FALSE)
    /\ UNCHANGED <<env, platPerm, phase, permission, isRunning, logs, vibrationKey,
                   vibrationPatternRef, intervalRef, timers, clock, requests,
                   fallbacks, pendingStarts, swRegistered, stopped>>

Catch_stopsLoop == stopNotifications

\* catch (e) { console.error("Notification failed", e); }
Catch == UNCHANGED <<isRunning, intervalRef, timers>>

\* showNotification settles: on success the cycle goes on to the direct
\* vibration (which may throw), on rejection to the catch block
ShowSettle ==
    /\ \E c \in BagToSet(inflight) :
       \E ok \in BOOLEAN, vok \in IF hasVibrate THEN BOOLEAN ELSE {TRUE} :
         /\ c.pc = "show"
         /\ inflight' = inflight (-) SetToBag({c})
         /\ IF ~ok
            THEN ev' = Ev("showSettle", {}, <<>>, TRUE) /\ Catch
            ELSE IF ~hasVibrate
            THEN /\ ev' = Ev("showSettle", {}, <<>>, FALSE)
                 /\ UNCHANGED <<isRunning, intervalRef, timers>>
            ELSE /\ ev' = Ev("showSettle", {"vibrate"}, c.pat, ~vok)
                 /\ IF ~vok THEN Catch ELSE UNCHANGED <<isRunning, intervalRef, timers>>
    /\ UNCHANGED <<env, platPerm, phase, permission, logs, vibrationKey,
                   vibrationPatternRef, clock, requests, fallbacks, pendingStarts,
                   swRegistered, stopped>>

\* The user revokes the permission in the browser's site settings.
PlatformRevoke ==
    /\ platPerm = "granted"
    /\ platPerm' = "denied"
    /\ ev' = Ev("revoke", {}, <<>>, FALSE)
    /\ UNCHANGED <<env, phase, permission, isRunning, logs, vibrationKey,
                   vibrationPatternRef, intervalRef, timers, clock, requests,
                   fallbacks, pendingStarts, swRegistered, inflight, stopped>>

-----------------------------------------------------------------------------
(* Specifications *)

Next ==
    \/ Mount(MaxCycles)
    \/ Teardown
    \/ StartClick(MaxCycles)
    \/ StopClick
    \/ VibrationSelect
    \/ GrantClick
    \/ PromptAnswer
    \/ RequestResolve
    \/ RequestReject
    \/ FallbackCallback(MaxCycles)
    \/ DelayedStart(MaxCycles)
    \/ Tick(MaxCycles)
    \/ AgentReady
    \/ ShowSettle
    \/ PlatformRevoke

Spec == Init /\ [][Next]_vars

\* The loop on a platform without a delivery agent, where every cycle runs to
\* its end in the step that begins it, followed long enough to fill the log.
InitLog == Init /\ supported /\ ~hasSW

NextLog ==
    \/ Mount(MaxLogCycles)
    \/ Teardown
    \/ StartClick(MaxLogCycles)
    \/ StopClick
    \/ GrantClick
    \/ PromptAnswer
    \/ RequestResolve
    \/ DelayedStart(MaxLogCycles)
    \/ Tick(MaxLogCycles)

SpecLog == InitLog /\ [][NextLog]_vars

-----------------------------------------------------------------------------
(* Properties *)

\* The steps in which sendRandomNotification is called.
StartOps == {"mountStart", "startClick", "delayedStart", "fallbackStart"}

\* C1: at most one periodic task is active, it is the one intervalRef holds,
\* and a start called by a click or a delayed callback (also while a task is
\* active) leaves exactly one.
C1_AtMostOneTask ==
    /\ Cardinality(timers) <= 1
    /\ timers # {} => timers = {intervalRef}
    /\ ev.op \in StartOps => Cardinality(timers) = 1

\* A start ran while a task was active: the platform handed out a handle
\* other than the first, and the earlier task is gone.
C1_StartWhileActive ==
    /\ ev.op = "delayedStart"
    /\ intervalRef > 1
    /\ timers = {intervalRef}

\* C2: the log never holds more than 50 entries, and a step that changes a
\* log of 50 entries puts one new entry in front, drops the oldest and shifts
\* the other 49 back by one place.
C2_LogBounded ==
    /\ [](Len(logs) <= LogCapacity)
    /\ [][(Len(logs) = LogCapacity /\ logs' # logs) =>
            /\ Len(logs') = LogCapacity
            /\ \A i \in 1..Len(logs) : logs'[1] # logs[i]
            /\ \A i \in 1..(LogCapacity - 1) : logs'[i + 1] = logs[i]]_vars

\* The 51st entry has been appended to a full log.
C2_Evicted ==
    /\ Len(logs) = LogCapacity
    /\ logs[1].id = LogCapacity + 1
    /\ logs[LogCapacity].id = 2

\* C3: while the platform permission is denied no step makes a delivery
\* attempt (showNotification, new Notification, loop-triggered vibration).
C3_NoAttemptWhileDenied ==
    platPerm = "denied" => ev.attempts \cap {"show", "direct", "vibrate"} = {}

\* C4: a step begins a delivery cycle exactly when it is a start or a tick,
\* and such a step puts exactly one new entry in front of the log whatever
\* the delivery does; the later steps of a cycle leave the log alone.
C4_OneEntryPerCycle ==
    [][/\ ev'.op \in StartOps \cup {"tick"} => clock' = clock + 1
       /\ clock' = clock + 1 =>
            /\ Len(logs') = Min(Len(logs) + 1, LogCapacity)
            /\ logs'[1].id = clock'
            /\ \A i \in 2..Len(logs') : logs'[i] = logs[i - 1]
       /\ clock' = clock => logs' = logs]_vars

\* A tick ran while the permission was denied, and logged.
C4_LoggedWithoutPermission ==
    /\ ev.op = "tick"
    /\ platPerm = "denied"
    /\ ev.attempts = {}
    /\ Len(logs) > 1
    /\ logs[1].id = clock

\* The steps of a delivery cycle.
CycleOps == StartOps \cup {"tick", "agentReady", "showSettle"}

\* C5: a step of a delivery cycle in which delivery or vibration fails leaves
\* the periodic task and RunningFlag as they were (or, in the eager cycle of a
\* start, as the start set them), and the next tick can still begin a cycle.
C5_FailureKeepsLoop ==
    /\ [][(ev'.failed /\ ev'.op \in {"tick", "showSettle"}) =>
            /\ isRunning' = isRunning
            /\ timers' = timers
            /\ intervalRef' = intervalRef]_vars
    /\ []((ev.failed /\ ev.op \in StartOps) =>
            isRunning /\ intervalRef \in timers)
    /\ []((ev.failed /\ ev.op \in CycleOps /\ timers # {}
             /\ clock < MaxCycles /\ BagCardinality(inflight) < MaxInFlight) =>
            ENABLED Tick(MaxCycles))

\* showNotification was rejected (or the vibration threw) for a suspended
\* cycle while the loop was running.
C5_FailedWhileRunning ==
    /\ ev.op = "showSettle"
    /\ ev.failed
    /\ isRunning
    /\ intervalRef \in timers

\* C6: from stop() or teardown until the user next starts the loop, no
\* periodic task is active and no delivery cycle begins.
C6_StopSuppressesCycles ==
    [][(stopped /\ stopped') => (timers' = {} /\ clock' = clock)]_vars

\* C7: RunningFlag is true exactly when a periodic task is active.
C7_RunningIffTask ==
    /\ isRunning <=> timers # {}
    /\ isRunning <=> intervalRef # NULL

\* stop() has cleared both after the loop ran for a while.
C7_StoppedAfterRun ==
    /\ ev.op = "stopClick"
    /\ clock > 1
    /\ ~isRunning
    /\ timers = {}

\* C8: the step in which a permission request yields 'granted' does not start
\* the loop: it schedules the delayed start and, when the agent capability is
\* present, has requested its registration.
C8_GrantDefersStart ==
    [][(ev'.op \in {"grantClick", "requestResolve", "fallback", "fallbackStart"}
          /\ permission = "default" /\ permission' = "granted") =>
            /\ isRunning' = isRunning
            /\ timers' = timers
            /\ logs' = logs
            /\ pendingStarts' = pendingStarts + 1
            /\ hasSW => swRegistered']_vars

\* C9: while the platform permission is denied the loop is not running.
C9_DeniedNotRunning ==
    platPerm = "denied" => (~isRunning /\ timers = {})

\* C10: on a platform without notification support the loop is never
\* started, nothing is requested and nothing is logged.
C10_UnsupportedNeverStarts ==
    ~supported =>
        /\ ~isRunning
        /\ timers = {}
        /\ intervalRef = NULL
        /\ logs = <<>>
        /\ clock = 0
        /\ requests = 0
        /\ pendingStarts = 0

\* The component has mounted on such a platform.
C10_MountedUnsupported == ~supported /\ phase = "mounted" /\ ev.op = "mount"

\* C11: in a cycle that passed the re-check, the step in which platform
\* delivery ends (new Notification returned or threw, showNotification
\* resolved or was rejected) triggers the direct vibration whenever the
\* platform can vibrate.
C11_VibrationWhateverDelivery ==
    (hasVibrate /\ (ev.op = "showSettle" \/ "direct" \in ev.attempts)) =>
        "vibrate" \in ev.attempts

\* C12: a cycle passes to the platform the pattern that vibrationPatternRef
\* held when the cycle began: a cycle that delivers in the step that begins it
\* uses the ref of that moment, a cycle that suspends carries that pattern
\* through its awaits, and a pattern change touches no cycle in flight.
C12_PatternFixedAtBegin ==
    /\ [](vibrationPatternRef = VIBRATION_PATTERNS[vibrationKey])
    /\ [][/\ clock' = clock + 1 =>
               /\ ev'.attempts # {} => ev'.pat = vibrationPatternRef
               /\ inflight' # inflight =>
                    inflight' = inflight (+) SetToBag({[pc |-> "ready",
                                                        pat |-> vibrationPatternRef]})
          /\ ev'.op = "agentReady" =>
               \E c \in BagToSet(inflight) :
                   /\ c.pc = "ready"
                   /\ ev'.pat = c.pat
                   /\ inflight' = (inflight (-) SetToBag({c}))
                                     (+) SetToBag({[pc |-> "show", pat |-> c.pat]})
          /\ (ev'.op = "showSettle" /\ ev'.attempts # {}) =>
               \E c \in BagToSet(inflight) :
                   /\ c.pc = "show"
                   /\ ev'.pat = c.pat
                   /\ inflight' = inflight (-) SetToBag({c})
          /\ vibrationPatternRef' # vibrationPatternRef =>
               (inflight' = inflight /\ clock' = clock)]_vars

\* A cycle suspended awaiting the agent resumed after the user had selected
\* another pattern, and passed on the pattern of its beginning.
C12_ResumedAfterChange ==
    /\ ev.op = "agentReady"
    /\ ev.pat # vibrationPatternRef

\* C13: a step that calls start() begins one delivery cycle and logs its
\* entry in that same step, and the task it schedules is a new one, so none of
\* its ticks precedes that entry.
C13_StartLogsAtOnce ==
    [][ev'.op \in StartOps =>
         /\ clock' = clock + 1
         /\ Len(logs') >= 1
         /\ logs'[1].id = clock'
         /\ \A i \in 1..Len(logs) : logs[i].id < clock'
         /\ intervalRef' \notin timers
         /\ timers' = {intervalRef'}]_vars

\* The delayed start after a grant was the first start of the session.
C13_FirstStartLogged ==
    /\ ev.op = "delayedStart"
    /\ Len(logs) = 1
    /\ logs[1].id = 1
    /\ timers = {intervalRef}

\* What a pattern selection leaves alone.
SelectionFrame ==
    UNCHANGED <<isRunning, intervalRef, timers, logs, clock, inflight, permission,
                platPerm, requests, fallbacks, pendingStarts>>

\* C14 as stated: a selection sets the pattern, triggers one preview with it
\* and changes nothing else.
C14_SelectAlwaysPreviews ==
    [][vibrationKey' # vibrationKey =>
         /\ vibrationPatternRef' = VIBRATION_PATTERNS[vibrationKey']
         /\ ev'.attempts = {"preview"}
         /\ ev'.pat = vibrationPatternRef'
         /\ SelectionFrame]_vars

\* C14 as amended: a selection sets the pattern, triggers one preview with it
\* when the platform can vibrate and none otherwise, and changes nothing else.
C14_SelectFrame ==
    [][vibrationKey' # vibrationKey =>
         /\ vibrationPatternRef' = VIBRATION_PATTERNS[vibrationKey']
         /\ ev'.attempts = (IF hasVibrate THEN {"preview"} ELSE {})
         /\ ev'.pat = vibrationPatternRef'
         /\ SelectionFrame]_vars

\* A pattern was selected and previewed while the loop was running.
C14_SelectedWhileRunning ==
    /\ ev.op = "vibrationChange"
    /\ ev.attempts = {"preview"}
    /\ vibrationKey # "default"
    /\ isRunning
    /\ intervalRef \in timers

\* The steps that belong to the mount read or to a permission request.
MirrorOps ==
    {"mount", "mountStart", "grantClick", "requestResolve", "fallback",
     "fallbackStart"}

\* C15: the mirrored permission changes only in the mount read or in a step
\* of a permission request, and once it is granted or denied it is never
\* 'default' again.
C15_MirrorNeverReturns ==
    [][/\ permission' # permission => ev'.op \in MirrorOps
       /\ permission # "default" => permission' # "default"]_vars

\* A second, concurrent request resolved after the first had been granted
\* and the grant revoked.
C15_SecondRequestResolved ==
    /\ ev.op = "requestResolve"
    /\ permission = "denied"
    /\ (isRunning \/ pendingStarts > 0)

\* C16: a tick does not wait for the cycles in flight: while a task is active
\* a tick can begin a cycle whatever is suspended, and a tick that fires with
\* cycles in flight logs its entry and leaves those cycles suspended.
C16_TicksNotSerialized ==
    /\ []((timers # {} /\ clock < MaxCycles
             /\ BagCardinality(inflight) < MaxInFlight) => ENABLED Tick(MaxCycles))
    /\ [][(ev'.op = "tick" /\ inflight # EmptyBag) =>
            /\ logs'[1].id = clock + 1
            /\ inflight \sqsubseteq inflight']_vars

\* A tick began a second cycle while the first was still suspended.
C16_TwoInFlight ==
    /\ ev.op = "tick"
    /\ BagCardinality(inflight) >= 2
    /\ logs[1].id = clock

=============================================================================
